---------------------------- MODULE Spec2Model ----------------------------
(***************************************************************************)
(* A model of generative-sprite: the seed's hex codec (seed.rs), the       *)
(* palette file parser, the sprite generator, the denoiser, the sheet      *)
(* compositor and the pipeline of main (main.rs), over the sprite buffer   *)
(* of sprite.rs.                                                           *)
(*                                                                         *)
(* Text is a sequence of characters, each character a one-character        *)
(* string; EAcute stands for U+00E9, a character of two UTF-8 bytes.       *)
(* A Color is a triple <<r, g, b>>.                                        *)
(***************************************************************************)
EXTENDS Integers, Sequences, FiniteSets, TLC

VARIABLES
    seedSt,     \* seed.rs: the codec's input, parse result and printed text
    palSt,      \* parse_palette_file: the text and the parsed palettes
    dnSt,       \* remove_lonely_pixels: its arguments and its result
    cpSt,       \* generate_pixels: its arguments and its result
    pc,         \* main / generate_sprite_matrix: the position in the code
    run,        \* which of the two program runs is executing
    args,       \* Arguments: the layout and the optional seed
    palettes,   \* the palette set read by read_palettes
    seed,       \* main's effective seed
    rng,        \* the random generator threaded through generation
    gen,        \* generate_sprite's locals: cell, palette, row, column, line
    sprites,    \* the sprites generated so far
    denoised,   \* the sprites after the two denoising passes
    sheet,      \* generate_pixels' result for this run
    drawLog,    \* history: every draw made on rng, in order
    prev        \* history: the previous run's seed, inputs and sheet

seedVars == <<seedSt>>
palVars  == <<palSt>>
dnVars   == <<dnSt>>
cpVars   == <<cpSt>>
pipeVars == <<pc, run, args, palettes, seed, rng, gen, sprites, denoised,
              sheet, drawLog, prev>>
vars     == <<seedSt, palSt, dnSt, cpSt, pc, run, args, palettes, seed, rng,
              gen, sprites, denoised, sheet, drawLog, prev>>

Idle == "idle"
None == "none"

Min(a, b) == IF a < b THEN a ELSE b
Max(a, b) == IF a > b THEN a ELSE b
Repeat(x, n) == [i \in 1..n |-> x]

RECURSIVE Flatten(_)
Flatten(ss) == IF ss = <<>> THEN <<>> ELSE Head(ss) \o Flatten(Tail(ss))

----------------------------------------------------------------------------
(* seed.rs *)

SeedSize == 32
HexSize == 64
Radix == 16
MaxTrim == 2

HexLower == <<"0", "1", "2", "3", "4", "5", "6", "7", "8", "9",
              "a", "b", "c", "d", "e", "f">>
HexUpper == <<"0", "1", "2", "3", "4", "5", "6", "7", "8", "9",
              "A", "B", "C", "D", "E", "F">>
EAcute == "e-acute"

\* str::len counts UTF-8 bytes, not characters
Utf8Len(c) == IF c = EAcute THEN 2 ELSE 1

RECURSIVE ByteLen(_)
ByteLen(s) == IF s = <<>> THEN 0 ELSE Utf8Len(Head(s)) + ByteLen(Tail(s))

\* char::to_digit(16): 0-9, a-f and A-F; -1 stands for Option::None
to_digit(c) ==
    IF \E i \in 1..Radix : HexLower[i] = c
    THEN (CHOOSE i \in 1..Radix : HexLower[i] = c) - 1
    ELSE IF \E i \in 1..Radix : HexUpper[i] = c
    THEN (CHOOSE i \in 1..Radix : HexUpper[i] = c) - 1
    ELSE -1

RECURSIVE DigitsValue(_, _)
DigitsValue(digits, acc) ==
    IF digits = <<>> THEN acc
    ELSE DigitsValue(Tail(digits), acc * Radix + to_digit(Head(digits)))

\* u8::from_str_radix(src, 16): an optional leading "+", then one or more
\* hexadecimal digits whose value fits a byte; -1 stands for Err
from_str_radix(src) ==
    IF src = <<>> THEN -1
    ELSE LET digits == IF Head(src) = "+" THEN Tail(src) ELSE src
         IN  IF digits = <<>> THEN -1
             ELSE IF \E i \in 1..Len(digits) : to_digit(digits[i]) = -1 THEN -1
             ELSE IF DigitsValue(digits, 0) > 255 THEN -1
             ELSE DigitsValue(digits, 0)

\* slice::chunks(2)
chunks(vec) ==
    [i \in 1..((Len(vec) + 1) \div 2) |->
        SubSeq(vec, 2 * i - 1, Min(2 * i, Len(vec)))]

\* <Seed as FromStr>::from_str. The loop stops at the first chunk that does
\* not parse; data[i] with i beyond the array would panic.
from_str(value) ==
    IF ByteLen(value) # HexSize THEN [tag |-> "InvalidSize"]
    ELSE LET cs  == chunks(value)
             bad == {i \in 1..Len(cs) : from_str_radix(cs[i]) = -1}
             firstBad == IF bad = {} THEN Len(cs) + 1
                         ELSE CHOOSE i \in bad : \A j \in bad : i <= j
         IN  IF firstBad > SeedSize /\ Len(cs) > SeedSize
             THEN [tag |-> "panic"]
             ELSE IF bad # {}
             THEN [tag |-> "InvalidByte", pair |-> cs[firstBad]]
             ELSE [tag |-> "Ok",
                   data |-> [i \in 1..SeedSize |->
                               IF i <= Len(cs) THEN from_str_radix(cs[i])
                               ELSE 0]]

\* format!("{:02x}", t)
format_02x_unpadded(t) ==
    IF t < Radix THEN <<HexLower[t + 1]>>
    ELSE <<HexLower[(t \div Radix) + 1], HexLower[(t % Radix) + 1]>>

format_02x(t) == <<HexLower[(t \div Radix) + 1], HexLower[(t % Radix) + 1]>>

\* <Seed as Display>::fmt
to_string(data) == Flatten([i \in 1..Len(data) |-> format_02x(data[i])])

\* The inputs: a text of HexSize characters, all the same hexadecimal digit
\* but for one chunk of two arbitrary characters, then cut short or extended
\* by up to MaxTrim characters; and a seed of SeedSize bytes, all zero but
\* for one arbitrary byte.
FillChars == {"c"}
PairChars == {"0", "a", "f", "B", "g", "z", "+", "-", " ", EAcute}

SeedText(fill, p, a, b, trim) ==
    LET full == [i \in 1..HexSize |->
                    IF i = 2 * p - 1 THEN a ELSE IF i = 2 * p THEN b ELSE fill]
    IN  IF trim <= 0 THEN SubSeq(full, 1, HexSize + trim)
        ELSE full \o Repeat(fill, trim)

SeedTexts ==
    {SeedText(fill, p, a, b, trim) :
        fill \in FillChars, p \in 1..SeedSize, a \in PairChars, b \in PairChars,
        trim \in (0 - MaxTrim)..MaxTrim}

SeedDatas ==
    {[i \in 1..SeedSize |-> IF i = p THEN v ELSE 0] :
        p \in 1..SeedSize, v \in 0..255}

NoSeed == [pc |-> Idle]

SeedInit ==
    \/ \E text \in SeedTexts :
          seedSt = [pc |-> "text", input |-> text, result |-> [tag |-> None],
                    printed |-> <<>>]
    \/ \E data \in SeedDatas :
          seedSt = [pc |-> "data", input |-> data, result |-> [tag |-> None],
                    printed |-> <<>>]

\* value.parse::<Seed>() on an input text
ParseText ==
    /\ seedSt.pc = "text"
    /\ seedSt' = [seedSt EXCEPT !.pc = "parsed",
                                !.result = from_str(seedSt.input)]
    /\ UNCHANGED <<palVars, dnVars, cpVars, pipeVars>>

\* seed.to_string() on the seed just parsed
PrintParsed ==
    /\ seedSt.pc = "parsed"
    /\ seedSt.result.tag = "Ok"
    /\ seedSt' = [seedSt EXCEPT !.pc = "reprinted",
                                !.printed = to_string(seedSt.result.data)]
    /\ UNCHANGED <<palVars, dnVars, cpVars, pipeVars>>

\* Seed::new(data).to_string()
PrintData ==
    /\ seedSt.pc = "data"
    /\ seedSt' = [seedSt EXCEPT !.pc = "printed",
                                !.printed = to_string(seedSt.input)]
    /\ UNCHANGED <<palVars, dnVars, cpVars, pipeVars>>

\* Seed::from_str on the text just printed
ParsePrinted ==
    /\ seedSt.pc = "printed"
    /\ seedSt' = [seedSt EXCEPT !.pc = "reparsed",
                                !.result = from_str(seedSt.printed)]
    /\ UNCHANGED <<palVars, dnVars, cpVars, pipeVars>>

SeedNext == ParseText \/ PrintParsed \/ PrintData \/ ParsePrinted

----------------------------------------------------------------------------
(* main.rs: parse_palette_file *)

MaxTextLines == 4
U8Max == 255

WhiteSpace == {" ", "\t", "\r", "\n"}
Decimal == <<"0", "1", "2", "3", "4", "5", "6", "7", "8", "9">>

IndexOfFirst(s, S) ==
    IF \E i \in 1..Len(s) : s[i] \in S
    THEN CHOOSE i \in 1..Len(s) : s[i] \in S /\ \A j \in 1..(i - 1) : s[j] \notin S
    ELSE 0

\* str::lines: split at "\n", a "\r" before it dropped; no line after a
\* final "\n"
RECURSIVE lines(_)
lines(s) ==
    IF s = <<>> THEN <<>>
    ELSE LET i == IndexOfFirst(s, {"\n"})
         IN  IF i = 0 THEN <<s>>
             ELSE LET line == SubSeq(s, 1, i - 1)
                      cut  == IF line # <<>> /\ line[Len(line)] = "\r"
                              THEN SubSeq(line, 1, Len(line) - 1) ELSE line
                  IN  <<cut>> \o lines(SubSeq(s, i + 1, Len(s)))

\* str::trim
trim(s) ==
    LET keep == {i \in 1..Len(s) : s[i] \notin WhiteSpace}
    IN  IF keep = {} THEN <<>>
        ELSE SubSeq(s, CHOOSE i \in keep : \A j \in keep : i <= j,
                       CHOOSE i \in keep : \A j \in keep : i >= j)

\* Regex::new(r"\s+").split(line)
RECURSIVE split(_)
split(s) ==
    LET i == IndexOfFirst(s, WhiteSpace)
    IN  IF i = 0 THEN <<s>>
        ELSE LET rest == SubSeq(s, i + 1, Len(s))
                 k == IF \E j \in 1..Len(rest) : rest[j] \notin WhiteSpace
                      THEN CHOOSE j \in 1..Len(rest) :
                              /\ rest[j] \notin WhiteSpace
                              /\ \A m \in 1..(j - 1) : rest[m] \in WhiteSpace
                      ELSE Len(rest) + 1
             IN  <<SubSeq(s, 1, i - 1)>> \o split(SubSeq(rest, k, Len(rest)))

DecimalDigit(c) ==
    IF \E i \in 1..10 : Decimal[i] = c
    THEN (CHOOSE i \in 1..10 : Decimal[i] = c) - 1 ELSE -1

RECURSIVE DecimalValue(_, _)
DecimalValue(digits, acc) ==
    IF digits = <<>> THEN acc
    ELSE DecimalValue(Tail(digits), acc * 10 + DecimalDigit(Head(digits)))

\* str::parse::<u8>(): an optional "+", then decimal digits of a value that
\* fits a byte; -1 stands for Err
parse_u8(tok) ==
    IF tok = <<>> THEN -1
    ELSE LET digits == IF Head(tok) = "+" THEN Tail(tok) ELSE tok
         IN  IF digits = <<>> THEN -1
             ELSE IF \E i \in 1..Len(digits) : DecimalDigit(digits[i]) = -1 THEN -1
             ELSE IF DecimalValue(digits, 0) > U8Max THEN -1
             ELSE DecimalValue(digits, 0)

\* lines 58-64: the Color of a non-blank line; <<>> where split[k] or
\* unwrap panics
LineColor(line) ==
    LET toks == split(line)
    IN  IF Len(toks) < 3 THEN <<>>
        ELSE IF \E k \in 1..3 : parse_u8(toks[k]) = -1 THEN <<>>
        ELSE <<parse_u8(toks[1]), parse_u8(toks[2]), parse_u8(toks[3])>>

\* lines 51-66: the loop over the trimmed lines
RECURSIVE ParseLoop(_, _, _)
ParseLoop(ls, pals, palette) ==
    IF ls = <<>> THEN [tag |-> "Ok", palettes |-> pals, palette |-> palette]
    ELSE IF Head(ls) = <<>>
    THEN IF palette # <<>>
         THEN ParseLoop(Tail(ls), Append(pals, palette), <<>>)
         ELSE ParseLoop(Tail(ls), pals, palette)
    ELSE IF LineColor(Head(ls)) = <<>> THEN [tag |-> "panic"]
    ELSE ParseLoop(Tail(ls), pals, Append(palette, LineColor(Head(ls))))

TrimmedLines(str) == LET ls == lines(str) IN [i \in 1..Len(ls) |-> trim(ls[i])]

parse_palette_file_no_flush(str) ==
    LET r == ParseLoop(TrimmedLines(str), <<>>, <<>>)
    IN  IF r.tag = "panic" THEN r
        ELSE [tag |-> "Ok", palettes |-> r.palettes]

parse_palette_file(str) ==
    LET r == ParseLoop(TrimmedLines(str), <<>>, <<>>)
    IN  IF r.tag = "panic" THEN r
        ELSE [tag |-> "Ok",
              palettes |-> IF r.palette # <<>>
                           THEN Append(r.palettes, r.palette) ELSE r.palettes]

\* The inputs: up to MaxTextLines lines, each one of these, joined by "\n",
\* with or without a final "\n".
LineTemplates ==
    { <<>>,
      <<" ", " ", " ">>,
      <<"1", " ", "2", " ", "3">>,
      <<" ", " ", "1", " ", "\t", "2", " ", " ", " ", " ", "3">>,
      <<"2", "5", "5", "\t", "0", " ", "7", "\r">>,
      <<"4", " ", "5">>,
      <<"2", "5", "6", " ", "0", " ", "0">> }

RECURSIVE Join(_)
Join(ls) ==
    IF ls = <<>> THEN <<>>
    ELSE IF Len(ls) = 1 THEN Head(ls)
    ELSE Head(ls) \o <<"\n">> \o Join(Tail(ls))

PaletteTexts ==
    UNION {{Join(ls) \o end : ls \in [1..n -> LineTemplates], end \in {<<>>, <<"\n">>}} :
              n \in 0..MaxTextLines}

NoPal == [pc |-> Idle]

PalInit ==
    \E text \in PaletteTexts :
        palSt = [pc |-> "text", text |-> text, result |-> [tag |-> None]]

ParsePaletteFile ==
    /\ palSt.pc = "text"
    /\ palSt' = [palSt EXCEPT !.pc = "parsed",
                              !.result = parse_palette_file(palSt.text)]
    /\ UNCHANGED <<seedVars, dnVars, cpVars, pipeVars>>

PalNext == ParsePaletteFile

----------------------------------------------------------------------------
(* sprite.rs, and the index converters of main.rs *)

Background == <<0, 0, 0>>      \* Color::default()
Red  == <<255, 0, 0>>
Blue == <<0, 0, 255>>

matrix_index_to_vec(width, line, column) == width * line + column

vec_index_to_matrix(width, index) == <<index \div width, index % width>>

\* Sprite::new; data is 1-based here, data[k + 1] is the code's data[k]
Sprite(width, height, data) ==
    [width |-> width, height |-> height, data |-> data]

get_at(sprite, line, column) ==
    sprite.data[matrix_index_to_vec(sprite.width, line, column) + 1]

set_at(sprite, line, column, color) ==
    [sprite EXCEPT
        !.data[matrix_index_to_vec(sprite.width, line, column) + 1] = color]

----------------------------------------------------------------------------
(* main.rs: remove_lonely_pixels *)

MaxWidth == 3
MaxHeight == 3
MaxSpriteHeight == 2
MaxMargin == 1
MaxMinCount == 4
WideWidth == 5
PassMargin == 2
FirstMinCount == 8
SecondMinCount == 4
TestSize == 5

\* line 352: the sprite whose pixels are counted is the argument, not the
\* copy being rewritten
CountedInPlace(sprite, new_sprite) == new_sprite

Counted(sprite, new_sprite) == sprite

NeighbourCountHalfOpen(sprite, line, column, margin, background) ==
    LET start_line   == line - Min(line, margin)
        end_line     == Min(line + margin + 1, sprite.height)
        start_column == column - Min(column, margin)
        end_column   == Min(column + margin, sprite.width)
    IN  Cardinality({lc \in (start_line..(end_line - 1)) \X
                            (start_column..(end_column - 1)) :
                        get_at(sprite, lc[1], lc[2]) # background})

\* lines 342-359
NeighbourCount(sprite, line, column, margin, background) ==
    LET start_line   == line - Min(line, margin)
        end_line     == Min(line + margin + 1, sprite.height)
        start_column == column - Min(column, margin)
        end_column   == Min(column + margin + 1, sprite.width)
    IN  Cardinality({lc \in (start_line..(end_line - 1)) \X
                            (start_column..(end_column - 1)) :
                        get_at(sprite, lc[1], lc[2]) # background})

\* line 361
IsLonelyReversed(count, min_count) == count > min_count

IsLonely(count, min_count) == count < min_count

\* lines 340-365: pixel k of the scan is (k / width, k % width)
RECURSIVE RemoveLoop(_, _, _, _, _, _)
RemoveLoop(sprite, new_sprite, k, margin, min_count, background) ==
    IF k >= sprite.width * sprite.height THEN new_sprite
    ELSE LET line   == k \div sprite.width
             column == k % sprite.width
             count  == NeighbourCount(Counted(sprite, new_sprite), line, column,
                                      margin, background)
         IN  RemoveLoop(sprite,
                        IF IsLonely(count, min_count)
                        THEN set_at(new_sprite, line, column, background)
                        ELSE new_sprite,
                        k + 1, margin, min_count, background)

remove_lonely_pixels(sprite, margin, min_count, background) ==
    RemoveLoop(sprite, sprite, 0, margin, min_count, background)

\* The inputs: every sprite of up to MaxWidth x MaxSpriteHeight pixels that are
\* background or Red, with every margin up to MaxMargin and every min_count
\* up to MaxMinCount or the pipeline's two passes; and the sprites of
\* test_remove_lonely_pixels, one Red pixel anywhere on TestSize x TestSize.
DenoiseParams ==
    ((0..MaxMargin) \X (0..MaxMinCount))
        \cup {<<PassMargin, FirstMinCount>>, <<PassMargin, SecondMinCount>>}

SmallSprites ==
    UNION {{Sprite(w, h, d) : d \in [1..(w * h) -> {Background, Red}]} :
              w \in 1..MaxWidth, h \in 1..MaxSpriteHeight}

TestSprites ==
    {Sprite(TestSize, TestSize,
            [i \in 1..(TestSize * TestSize) |-> IF i = k THEN Red ELSE Background]) :
        k \in 1..(TestSize * TestSize)}

\* Sprites generate_sprite can return (lines 244-262) for a width of
\* WideWidth: every row is a half row and its mirror image, a pixel being
\* background or the color of its column pair, Red and Blue in turn from
\* the edge. They go through the first pass of main or through the widest
\* pass of DenoiseParams.
MirroredSprites ==
    UNION {{Sprite(WideWidth, h,
                   [k \in 1..(WideWidth * h) |->
                       LET line   == (k - 1) \div WideWidth
                           column == (k - 1) % WideWidth
                           half   == (WideWidth + 1) \div 2
                           pair   == Min(column, WideWidth - 1 - column)
                       IN  IF ~ d[half * line + pair + 1] THEN Background
                           ELSE IF pair % 2 = 0 THEN Red ELSE Blue]) :
               d \in [1..(((WideWidth + 1) \div 2) * h) -> BOOLEAN]} :
              h \in 1..MaxSpriteHeight}

MirroredParams == {<<PassMargin, FirstMinCount>>, <<MaxMargin, MaxMinCount>>}

NoDn == [pc |-> Idle]

\* input is the sprite the first pass was given
DnInit ==
    \/ \E sp \in SmallSprites, mm \in DenoiseParams :
          dnSt = [pc |-> "args", input |-> sp, sprite |-> sp,
                  margin |-> mm[1], min_count |-> mm[2],
                  out |-> Sprite(0, 0, <<>>)]
    \/ \E sp \in TestSprites :
          dnSt = [pc |-> "args", input |-> sp, sprite |-> sp,
                  margin |-> PassMargin, min_count |-> FirstMinCount,
                  out |-> Sprite(0, 0, <<>>)]
    \/ \E sp \in MirroredSprites, mm \in MirroredParams :
          dnSt = [pc |-> "args", input |-> sp, sprite |-> sp,
                  margin |-> mm[1], min_count |-> mm[2],
                  out |-> Sprite(0, 0, <<>>)]

RemoveLonelyPixels ==
    /\ dnSt.pc = "args"
    /\ dnSt' = [dnSt EXCEPT
                  !.pc = "done",
                  !.out = remove_lonely_pixels(dnSt.sprite, dnSt.margin,
                                               dnSt.min_count, Background)]
    /\ UNCHANGED <<seedVars, palVars, cpVars, pipeVars>>

\* lines 409-410: the sprite a pass returned goes through a pass again, the
\* second pass of main after the first, the same pass otherwise
RemoveLonelyPixelsAgain ==
    /\ dnSt.pc = "done"
    /\ LET min_count ==
               IF <<dnSt.margin, dnSt.min_count>> = <<PassMargin, FirstMinCount>>
               THEN SecondMinCount ELSE dnSt.min_count
       IN  dnSt' = [dnSt EXCEPT
                      !.sprite = dnSt.out,
                      !.min_count = min_count,
                      !.out = remove_lonely_pixels(dnSt.out, dnSt.margin,
                                                   min_count, Background)]
    /\ UNCHANGED <<seedVars, palVars, cpVars, pipeVars>>

DnNext == RemoveLonelyPixels \/ RemoveLonelyPixelsAgain

----------------------------------------------------------------------------
(* main.rs: generate_pixels *)

MaxColumns == 2
MaxLines == 2

\* Arguments; seed is <<>> for Option::None
Layout(w, h, columns, ls, margin) ==
    [sprite_width |-> w, sprite_height |-> h, sprite_columns |-> columns,
     sprite_lines |-> ls, margin |-> margin, seed |-> <<>>]

ImageWidthInnerMargins(a) ==
    a.sprite_width * a.sprite_columns + (a.sprite_columns - 1) * a.margin

\* lines 298-299 (and 382-383)
ImageWidth(a) ==
    a.sprite_width * a.sprite_columns + (a.sprite_columns + 1) * a.margin
ImageHeight(a) ==
    a.sprite_height * a.sprite_lines + (a.sprite_lines + 1) * a.margin

\* lines 309-310
StartLine(a, sprite_line) == sprite_line * (a.sprite_height + a.margin) + a.margin

StartColumnByHeight(a, sprite_column) ==
    sprite_column * (a.sprite_height + a.margin) + a.margin

StartColumn(a, sprite_column) ==
    sprite_column * (a.sprite_width + a.margin) + a.margin

\* lines 306-324: step k of the three nested loops is sprite k / (w * h),
\* column sc = (k % (w * h)) / h, line sl = k % h. acc.dropped counts the
\* pixels the bounds check of line 319 skips.
RECURSIVE PixelLoop(_, _, _, _)
PixelLoop(a, sprs, acc, k) ==
    LET per == a.sprite_width * a.sprite_height
    IN  IF k >= Len(sprs) * per THEN acc
        ELSE LET sprite_index == k \div per
                 sc   == (k % per) \div a.sprite_height
                 sl   == k % a.sprite_height
                 cell == vec_index_to_matrix(a.sprite_columns, sprite_index)
                 l    == StartLine(a, cell[1]) + sl
                 c    == StartColumn(a, cell[2]) + sc
             IN  IF l < ImageHeight(a) /\ c < ImageWidth(a)
                 THEN PixelLoop(a, sprs,
                        [acc EXCEPT
                           !.image[matrix_index_to_vec(ImageWidth(a), l, c) + 1] =
                               get_at(sprs[sprite_index + 1], sl, sc)],
                        k + 1)
                 ELSE PixelLoop(a, sprs, [acc EXCEPT !.dropped = @ + 1], k + 1)

GeneratePixelsLoop(a, sprs, background) ==
    PixelLoop(a, sprs,
              [image |-> Repeat(background, ImageWidth(a) * ImageHeight(a)),
               dropped |-> 0],
              0)

generate_pixels(a, sprs, background) ==
    GeneratePixelsLoop(a, sprs, background).image

\* The inputs: every layout within the bounds, with as many sprites as
\* cells or one more; pixel (sl, sc) of sprite i is the color
\* <<i + 1, sl, sc>>, but for at most one pixel of the first or of the
\* last sprite, which is background.
Layouts ==
    {Layout(w, h, columns, ls, margin) :
        w \in 1..MaxWidth, h \in 1..MaxHeight, columns \in 1..MaxColumns,
        ls \in 1..MaxLines, margin \in 0..MaxMargin}

MarkerSprite(a, i, hole) ==
    Sprite(a.sprite_width, a.sprite_height,
           [k \in 1..(a.sprite_width * a.sprite_height) |->
               IF hole = <<i, k>> THEN Background
               ELSE <<i + 1, (k - 1) \div a.sprite_width,
                            (k - 1) % a.sprite_width>>])

NoCp == [pc |-> Idle]

CpInit ==
    \E a \in Layouts :
      \E n \in {a.sprite_columns * a.sprite_lines,
                a.sprite_columns * a.sprite_lines + 1} :
        \E hole \in {<<0, 0>>} \cup
                    ({0, n - 1} \X (1..(a.sprite_width * a.sprite_height))) :
            cpSt = [pc |-> "args", args |-> a,
                    sprites |-> [i \in 1..n |-> MarkerSprite(a, i - 1, hole)],
                    image |-> <<>>, dropped |-> 0]

GeneratePixels ==
    /\ cpSt.pc = "args"
    /\ LET r == GeneratePixelsLoop(cpSt.args, cpSt.sprites, Background)
       IN  cpSt' = [cpSt EXCEPT !.pc = "done", !.image = r.image,
                                !.dropped = r.dropped]
    /\ UNCHANGED <<seedVars, palVars, dnVars, pipeVars>>

CpNext == GeneratePixels

----------------------------------------------------------------------------
(* main.rs: generate_sprite, generate_sprite_matrix and main *)

NumSeeds == 2
RawRange == 4
MaxSites == 4
MaxMainSites == 6

\* The generator's raw output is a number in 0..RawRange-1, read as the
\* fraction raw / RawRange. R: Rng is either StdRng, a fixed function of
\* the seed and of the number of draws made (this one, which deals the
\* seed's bytes in turn, stands in for the library's), or any generator
\* at all, whose every draw may be any value.
StdRaw(s, pos) == s[(pos % SeedSize) + 1] % RawRange

\* line 399: StdRng::from_seed(seed)
from_seed_per_run(s) ==
    [kind |-> "std", seed |-> [i \in 1..SeedSize |-> run - 1], pos |-> 0]

from_seed(s) == [kind |-> "std", seed |-> s, pos |-> 0]

AnyRng == [kind |-> "any"]

Outputs(r) ==
    IF r.kind = "std" THEN {StdRaw(r.seed, r.pos)} ELSE 0..(RawRange - 1)

Drawn(r) == IF r.kind = "std" THEN [r EXCEPT !.pos = @ + 1] ELSE r

\* slice::choose: a uniform index below len
choose_index(raw, len) == (raw * len) \div RawRange

\* line 244
HalfWidthFloor(width) == width \div 2

HalfWidth(width) == (width + 1) \div 2

\* line 246
SymIndexOffByOne(width, column) == width - column

SymIndex(width, column) == width - 1 - column

\* lines 248-251: factor = (sym_index - index) / width and the weights
\* [0.5 - 0.5 * factor, 0.5 + 0.5 * factor], both scaled by 2 * width
WeightsSwapped(width, index, sym_index) ==
    <<width + (sym_index - index), width - (sym_index - index)>>

Weights(width, index, sym_index) ==
    <<width - (sym_index - index), width + (sym_index - index)>>

\* WeightedIndex::sample: the index of the weight the draw falls in
WeightedSample(raw, weights) ==
    IF raw * (weights[1] + weights[2]) < weights[1] * RawRange THEN 0 ELSE 1

\* lines 409-410
DenoisePasses(sprite) ==
    remove_lonely_pixels(
        remove_lonely_pixels(sprite, PassMargin, FirstMinCount, Background),
        PassMargin, SecondMinCount, Background)

\* The inputs.
SeedPattern == <<0, 0, 2, 1>>
SeedSamples ==
    {[i \in 1..SeedSize |-> (k * SeedPattern[((i - 1) % 4) + 1]) % 256] :
        k \in 0..(NumSeeds - 1)}
Green == <<0, 255, 0>>
PaletteSets == { <<<<Red>>>>, <<<<Red, Blue>>, <<Green>>>> }

Cells(a) == a.sprite_columns * a.sprite_lines
Sites(a) == Cells(a) * a.sprite_height * HalfWidth(a.sprite_width)

\* main's layouts: those with the widest margin that make at most
\* MaxMainSites weighted draws, and one sprite of 10 x 10
MainLayouts ==
    {a \in Layouts : a.margin = MaxMargin /\ Sites(a) <= MaxMainSites}
        \cup {Layout(10, 10, 1, 1, 0)}

\* generate_sprite_matrix's layouts under any generator: those that make at
\* most MaxSites weighted draws, and one row WideWidth wide
GenLayouts ==
    {a \in Layouts : a.margin = 0 /\ Sites(a) <= MaxSites}
        \cup {Layout(WideWidth, 1, 1, 1, 0)}

NoGen == [cell |-> 0, palette |-> <<>>, line |-> 0, column |-> 0,
          image_line |-> <<>>, data |-> <<>>]

\* a draw made from the generator; a weighted draw (line 255) is logged
\* with the weights it was made with (lines 248-251)
Draw(kind, value) ==
    [kind |-> kind, cell |-> gen.cell, line |-> gen.line,
     column |-> gen.column, value |-> value,
     weights |-> IF kind = "weight"
                 THEN Weights(args.sprite_width, gen.column,
                              SymIndex(args.sprite_width, gen.column))
                 ELSE <<>>]

\* main up to line 385, run 1: the arguments and the palette file are read
MainInit ==
    /\ pc = "main" /\ run = 1
    /\ \E a \in MainLayouts, s \in {<<>>} \cup SeedSamples :
          args = [a EXCEPT !.seed = s]
    /\ palettes \in PaletteSets
    /\ seed = <<>> /\ rng = AnyRng /\ gen = NoGen
    /\ sprites = <<>> /\ denoised = <<>> /\ sheet = <<>> /\ drawLog = <<>>
    /\ prev = [seed |-> <<>>, args |-> Layout(0, 0, 0, 0, 0), palettes |-> <<>>,
               sheet |-> <<>>]

\* a call of generate_sprite_matrix with any generator
GenInit ==
    /\ pc = "palette" /\ run = 0
    /\ args \in GenLayouts
    /\ palettes \in PaletteSets
    /\ seed = <<>> /\ rng = AnyRng /\ gen = NoGen
    /\ sprites = <<>> /\ denoised = <<>> /\ sheet = <<>> /\ drawLog = <<>>
    /\ prev = [seed |-> <<>>, args |-> Layout(0, 0, 0, 0, 0), palettes |-> <<>>,
               sheet |-> <<>>]

\* lines 387-399: the seed given, or 32 bytes of thread_rng; then the
\* generator is seeded
SeedRng ==
    /\ pc = "main"
    /\ \E s \in (IF args.seed # <<>> THEN {args.seed} ELSE SeedSamples) :
          /\ seed' = s
          /\ rng' = from_seed(s)
    /\ gen' = NoGen
    /\ pc' = "palette"
    /\ UNCHANGED <<run, args, palettes, sprites, denoised, sheet, drawLog, prev>>
    /\ UNCHANGED <<seedVars, palVars, dnVars, cpVars>>

\* line 285, then lines 239-242 for line 0 of the sprite
ChoosePalette ==
    /\ pc = "palette"
    /\ \E raw \in Outputs(rng) :
          LET i == choose_index(raw, Len(palettes))
          IN  /\ gen' = [gen EXCEPT
                           !.palette = palettes[i + 1],
                           !.line = 0, !.column = 0,
                           !.image_line = Repeat(Background, args.sprite_width),
                           !.data = <<>>]
              /\ drawLog' = Append(drawLog, Draw("palette", i))
    /\ rng' = Drawn(rng)
    /\ pc' = "weight"
    /\ UNCHANGED <<run, args, palettes, seed, sprites, denoised, sheet, prev>>
    /\ UNCHANGED <<seedVars, palVars, dnVars, cpVars>>

\* lines 244-268 and 282-288 after a column: the next column, or the next
\* line, or the next sprite, or the end of generate_sprite_matrix
AfterColumn(image_line) ==
    IF gen.column + 1 < HalfWidth(args.sprite_width)
    THEN /\ gen' = [gen EXCEPT !.column = @ + 1, !.image_line = image_line]
         /\ pc' = "weight"
         /\ UNCHANGED sprites
    ELSE IF gen.line + 1 < args.sprite_height
    THEN /\ gen' = [gen EXCEPT
                      !.line = @ + 1, !.column = 0,
                      !.image_line = Repeat(Background, args.sprite_width),
                      !.data = @ \o image_line]
         /\ pc' = "weight"
         /\ UNCHANGED sprites
    ELSE /\ sprites' = Append(sprites,
                              Sprite(args.sprite_width, args.sprite_height,
                                     gen.data \o image_line))
         /\ gen' = [NoGen EXCEPT !.cell = gen.cell + 1]
         /\ pc' = IF gen.cell + 1 < Cells(args) THEN "palette" ELSE "generated"

\* lines 245-255: the weighted draw of a column
SampleWeight ==
    /\ pc = "weight"
    /\ \E raw \in Outputs(rng) :
          LET index     == gen.column
              sym_index == SymIndex(args.sprite_width, gen.column)
              i == WeightedSample(raw, Weights(args.sprite_width, index, sym_index))
          IN  /\ drawLog' = Append(drawLog, Draw("weight", i))
              /\ IF i = 0
                 THEN pc' = "color" /\ UNCHANGED <<gen, sprites>>
                 ELSE AfterColumn(gen.image_line)
    /\ rng' = Drawn(rng)
    /\ UNCHANGED <<run, args, palettes, seed, denoised, sheet, prev>>
    /\ UNCHANGED <<seedVars, palVars, dnVars, cpVars>>

\* lines 257-260: the color of a painted column and of its mirror
ChooseColor ==
    /\ pc = "color"
    /\ \E raw \in Outputs(rng) :
          LET index     == gen.column
              sym_index == SymIndex(args.sprite_width, gen.column)
              i     == choose_index(raw, Len(gen.palette))
              color == gen.palette[i + 1]
          IN  /\ drawLog' = Append(drawLog, Draw("color", i))
              /\ AfterColumn([gen.image_line EXCEPT ![index + 1] = color,
                                                    ![sym_index + 1] = color])
    /\ rng' = Drawn(rng)
    /\ UNCHANGED <<run, args, palettes, seed, denoised, sheet, prev>>
    /\ UNCHANGED <<seedVars, palVars, dnVars, cpVars>>

\* lines 407-411: the next sprite goes through the passes
Denoise ==
    /\ pc = "generated" /\ run > 0
    /\ Len(denoised) < Len(sprites)
    /\ denoised' = Append(denoised, DenoisePasses(sprites[Len(denoised) + 1]))
    /\ UNCHANGED <<pc, run, args, palettes, seed, rng, gen, sprites, sheet,
                   drawLog, prev>>
    /\ UNCHANGED <<seedVars, palVars, dnVars, cpVars>>

\* line 413
ComposeSheet ==
    /\ pc = "generated" /\ run > 0
    /\ Len(denoised) = Len(sprites)
    /\ sheet' = generate_pixels(args, denoised, Background)
    /\ pc' = "done"
    /\ UNCHANGED <<run, args, palettes, seed, rng, gen, sprites, denoised,
                   drawLog, prev>>
    /\ UNCHANGED <<seedVars, palVars, dnVars, cpVars>>

\* the program is run a second time, with the same layout and with any
\* seed option and palette file
SecondRun ==
    /\ pc = "done" /\ run = 1
    /\ prev' = [seed |-> seed, args |-> args, palettes |-> palettes,
                sheet |-> sheet]
    /\ run' = 2
    /\ \E s \in {<<>>} \cup SeedSamples : args' = [args EXCEPT !.seed = s]
    /\ palettes' \in PaletteSets
    /\ seed' = <<>> /\ rng' = AnyRng /\ gen' = NoGen
    /\ sprites' = <<>> /\ denoised' = <<>> /\ sheet' = <<>> /\ drawLog' = <<>>
    /\ pc' = "main"
    /\ UNCHANGED <<seedVars, palVars, dnVars, cpVars>>

Next ==
    \/ SeedRng \/ ChoosePalette \/ SampleWeight \/ ChooseColor
    \/ Denoise \/ ComposeSheet \/ SecondRun

GenNext == ChoosePalette \/ SampleWeight \/ ChooseColor

----------------------------------------------------------------------------
(* The specifications, one per entry point *)

PipeIdle ==
    /\ pc = Idle /\ run = 0 /\ args = None /\ palettes = None /\ seed = None
    /\ rng = None /\ gen = None /\ sprites = <<>> /\ denoised = <<>>
    /\ sheet = None /\ drawLog = <<>> /\ prev = None

Init == MainInit /\ seedSt = NoSeed /\ palSt = NoPal /\ dnSt = NoDn /\ cpSt = NoCp

Spec == Init /\ [][Next]_vars

InitGen == GenInit /\ seedSt = NoSeed /\ palSt = NoPal /\ dnSt = NoDn /\ cpSt = NoCp

SpecGen == InitGen /\ [][GenNext]_vars

InitSeed == SeedInit /\ palSt = NoPal /\ dnSt = NoDn /\ cpSt = NoCp /\ PipeIdle

SpecSeed == InitSeed /\ [][SeedNext]_vars

InitPalette == PalInit /\ seedSt = NoSeed /\ dnSt = NoDn /\ cpSt = NoCp /\ PipeIdle

SpecPalette == InitPalette /\ [][PalNext]_vars

InitDenoise == DnInit /\ seedSt = NoSeed /\ palSt = NoPal /\ cpSt = NoCp /\ PipeIdle

SpecDenoise == InitDenoise /\ [][DnNext]_vars

InitPixels == CpInit /\ seedSt = NoSeed /\ palSt = NoPal /\ dnSt = NoDn /\ PipeIdle

SpecPixels == InitPixels /\ [][CpNext]_vars

----------------------------------------------------------------------------
(* Properties of the seed codec, checked under SpecSeed *)

IsHexPair(chunk) ==
    Len(chunk) = 2 /\ to_digit(chunk[1]) # -1 /\ to_digit(chunk[2]) # -1

ClaimedFromStr(s) ==
    IF ByteLen(s) # HexSize THEN [tag |-> "InvalidSize"]
    ELSE LET cs  == chunks(s)
             bad == {i \in 1..Len(cs) : ~IsHexPair(cs[i])}
         IN  IF bad # {}
             THEN [tag |-> "InvalidByte",
                   pair |-> cs[CHOOSE i \in bad : \A j \in bad : i <= j]]
             ELSE [tag |-> "Ok",
                   data |-> [i \in 1..SeedSize |->
                               Radix * to_digit(cs[i][1]) + to_digit(cs[i][2])]]

\* C3: Seed::from_str never panics and returns Err(InvalidSize) when the
\* length of the text is not 64, otherwise Err(InvalidByte(pair)) for the
\* first chunk that is not two hexadecimal digits, otherwise Ok with the 32
\* bytes the chunks denote.
C3_FromStrContract ==
    seedSt.pc = "parsed" => seedSt.result = ClaimedFromStr(seedSt.input)

IsLowerHexText(s) ==
    /\ Len(s) = HexSize
    /\ \A i \in 1..Len(s) : \E k \in 1..Radix : HexLower[k] = s[i]

\* C4: printing a seed and parsing the text gives the seed back; parsing a
\* text of 64 lowercase hexadecimal characters and printing the seed gives
\* the text back; a printed seed is always 64 lowercase hexadecimal
\* characters.
C4_RoundTrip ==
    /\ seedSt.pc = "reparsed" =>
          seedSt.result = [tag |-> "Ok", data |-> seedSt.input]
    /\ (seedSt.pc \in {"parsed", "reprinted"} /\ IsLowerHexText(seedSt.input)) =>
          /\ seedSt.result.tag = "Ok"
          /\ seedSt.pc = "reprinted" => seedSt.printed = seedSt.input
    /\ seedSt.pc \in {"printed", "reprinted", "reparsed"} =>
          IsLowerHexText(seedSt.printed)

C4_Witness ==
    /\ seedSt.pc = "reparsed"
    /\ seedSt.result.tag = "Ok"
    /\ \E i \in 1..SeedSize : seedSt.input[i] \in 1..15

----------------------------------------------------------------------------
(* Properties of the palette parser, checked under SpecPalette *)

\* C9: the parsed palettes are, in input order, the maximal runs of
\* consecutive non-blank trimmed lines, each holding its lines' colors in
\* order; no palette is empty, a run still open at the end of the input is
\* included, and an input with no data line gives no palette.
C9_PaletteGroups ==
    palSt.pc = "parsed" =>
        LET ls     == TrimmedLines(palSt.text)
            data   == {i \in 1..Len(ls) : ls[i] # <<>>}
            starts == {i \in data : (i - 1) \notin data}
            EndOf(i) == CHOOSE j \in data :
                            /\ j >= i /\ (j + 1) \notin data
                            /\ \A k \in i..j : k \in data
            StartNo(k) == CHOOSE i \in starts :
                            Cardinality({j \in starts : j <= i}) = k
            r == palSt.result
        IN  (\A i \in data : LineColor(ls[i]) # <<>>) =>
                /\ r.tag = "Ok"
                /\ Len(r.palettes) = Cardinality(starts)
                /\ \A k \in 1..Len(r.palettes) :
                      /\ r.palettes[k] # <<>>
                      /\ r.palettes[k] =
                            [m \in 1..(EndOf(StartNo(k)) - StartNo(k) + 1) |->
                                LineColor(ls[StartNo(k) + m - 1])]
                /\ (data = {}) => (r.palettes = <<>>)

C9_Witness ==
    /\ palSt.pc = "parsed"
    /\ palSt.result.tag = "Ok"
    /\ Len(palSt.result.palettes) = 2
    /\ palSt.text[1] = "\n"
    /\ palSt.text[Len(palSt.text)] # "\n"

----------------------------------------------------------------------------
(* Properties of the denoiser, checked under SpecDenoise *)

\* the number of non-background pixels of the square of radius r around
\* (line, column), clipped to the sprite
SquareCount(sprite, line, column, r) ==
    Cardinality(
        {lc \in (Max(0, line - r)..(Min(sprite.height, line + r + 1) - 1)) \X
                (Max(0, column - r)..(Min(sprite.width, column + r + 1) - 1)) :
            sprite.data[sprite.width * lc[1] + lc[2] + 1] # Background})

NonBackground(sprite) ==
    Cardinality({k \in 1..Len(sprite.data) : sprite.data[k] # Background})

AllBackground(sprite) == \A k \in 1..Len(sprite.data) : sprite.data[k] = Background

\* C5: remove_lonely_pixels returns a sprite of the same width and height
\* whose pixel (line, column) is background when the square of radius r
\* around it holds fewer than minCount non-background pixels of the input
\* sprite, and is the input's pixel otherwise.
C5_DenoisePointwise ==
    dnSt.pc = "done" =>
        /\ dnSt.out.width = dnSt.sprite.width
        /\ dnSt.out.height = dnSt.sprite.height
        /\ Len(dnSt.out.data) = dnSt.sprite.width * dnSt.sprite.height
        /\ \A line \in 0..(dnSt.sprite.height - 1),
              column \in 0..(dnSt.sprite.width - 1) :
              dnSt.out.data[dnSt.sprite.width * line + column + 1] =
                  IF SquareCount(dnSt.sprite, line, column, dnSt.margin)
                        < dnSt.min_count
                  THEN Background
                  ELSE dnSt.sprite.data[dnSt.sprite.width * line + column + 1]

\* a pass that removed a pixel next to one it kept
C5_Witness ==
    /\ dnSt.pc = "done"
    /\ dnSt.margin >= 1
    /\ \E k \in 1..(Len(dnSt.sprite.data) - 1) :
          /\ dnSt.sprite.data[k] = Red /\ dnSt.out.data[k] = Background
          /\ dnSt.sprite.data[k + 1] = Red /\ dnSt.out.data[k + 1] = Red

\* C7: a sprite with fewer than minCount non-background pixels in all
\* becomes all background, and an all-background sprite is returned
\* unchanged.
C7_SparseBecomesBackground ==
    dnSt.pc = "done" =>
        /\ NonBackground(dnSt.sprite) < dnSt.min_count =>
              /\ AllBackground(dnSt.out)
              /\ dnSt.out = [dnSt.sprite EXCEPT
                               !.data = Repeat(Background, Len(dnSt.sprite.data))]
        /\ AllBackground(dnSt.sprite) => dnSt.out = dnSt.sprite

\* the sprite of test_remove_lonely_pixels, denoised with r = 2, minCount = 8
C7_Witness ==
    /\ dnSt.pc = "done"
    /\ dnSt.sprite.width = TestSize /\ dnSt.sprite.height = TestSize
    /\ dnSt.sprite.data[14] = Red
    /\ dnSt.margin = PassMargin /\ dnSt.min_count = FirstMinCount
    /\ AllBackground(dnSt.out)

\* every row reads the same from the left and from the right
Mirrored(sprite) ==
    \A line \in 0..(sprite.height - 1), column \in 0..(sprite.width - 1) :
        sprite.data[sprite.width * line + column + 1] =
            sprite.data[sprite.width * line + (sprite.width - 1 - column) + 1]

\* each pixel of after is the pixel of before or background
OnlyRemoved(before, after) ==
    /\ Len(after.data) = Len(before.data)
    /\ \A k \in 1..Len(before.data) :
          after.data[k] \in {before.data[k], Background}

\* C13: a pass of remove_lonely_pixels, with any r and minCount, returns a
\* mirror-symmetric sprite when it is given one, and every pixel it returns
\* is the pixel it was given or background; so the same holds between the
\* sprite the first pass was given and the sprite the last pass returned,
\* the two passes of main included.
C13_DenoiseKeepsMirror ==
    dnSt.pc = "done" =>
        /\ Mirrored(dnSt.sprite) => Mirrored(dnSt.out)
        /\ OnlyRemoved(dnSt.sprite, dnSt.out)
        /\ Mirrored(dnSt.input) => Mirrored(dnSt.out)
        /\ OnlyRemoved(dnSt.input, dnSt.out)

\* the two passes of main on a mirror-symmetric sprite of two colors: the
\* first removed pixels on both sides, the second returned pixels of both
\* colors
C13_Witness ==
    /\ dnSt.pc = "done"
    /\ dnSt.margin = PassMargin /\ dnSt.min_count = SecondMinCount
    /\ dnSt.input.width = WideWidth
    /\ Mirrored(dnSt.input)
    /\ dnSt.input.data[1] # Background /\ dnSt.sprite.data[1] = Background
    /\ dnSt.input.data[WideWidth] # Background
    /\ dnSt.sprite.data[WideWidth] = Background
    /\ \E k \in 1..Len(dnSt.out.data) : dnSt.out.data[k] = Red
    /\ \E k \in 1..Len(dnSt.out.data) : dnSt.out.data[k] = Blue

----------------------------------------------------------------------------
(* Properties of the compositor, checked under SpecPixels *)

\* C8: given columns x lines sprites, the sheet has W x H pixels, sprite i's
\* pixel (sl, sc) is at line (i / columns) * (height + margin) + margin + sl,
\* column (i % columns) * (width + margin) + margin + sc, and every pixel
\* no sprite covers is background.
C8_SheetLayout ==
    (/\ cpSt.pc = "done"
     /\ Len(cpSt.sprites) = cpSt.args.sprite_columns * cpSt.args.sprite_lines) =>
        LET a  == cpSt.args
            w  == a.sprite_width
            h  == a.sprite_height
            W  == a.sprite_columns * w + (a.sprite_columns + 1) * a.margin
            H  == a.sprite_lines * h + (a.sprite_lines + 1) * a.margin
            Top(i)  == (i \div a.sprite_columns) * (h + a.margin) + a.margin
            Left(i) == (i % a.sprite_columns) * (w + a.margin) + a.margin
            cells   == 0..(Len(cpSt.sprites) - 1)
        IN  /\ Len(cpSt.image) = W * H
            /\ \A i \in cells, sl \in 0..(h - 1), sc \in 0..(w - 1) :
                  cpSt.image[W * (Top(i) + sl) + Left(i) + sc + 1] =
                      cpSt.sprites[i + 1].data[w * sl + sc + 1]
            /\ \A l \in 0..(H - 1), c \in 0..(W - 1) :
                  (~ \E i \in cells :
                        /\ l \in Top(i)..(Top(i) + h - 1)
                        /\ c \in Left(i)..(Left(i) + w - 1)) =>
                      cpSt.image[W * l + c + 1] = Background

C8_Witness ==
    /\ cpSt.pc = "done"
    /\ cpSt.args = Layout(3, 2, 2, 2, 1)
    /\ Len(cpSt.sprites) = 4
    /\ cpSt.image[9 * 4 + 5 + 1] = <<4, 0, 0>>

\* The sheet coordinates generate_pixels computes for pixel (sl, sc) of
\* sprite sprite_index (lines 307-317).
Target(a, sprite_index, sl, sc) ==
    LET cell == vec_index_to_matrix(a.sprite_columns, sprite_index)
    IN  <<StartLine(a, cell[1]) + sl, StartColumn(a, cell[2]) + sc>>

\* C11: given exactly columns x lines sprites of positive size, the bounds
\* check of generate_pixels drops no pixel: every target (l, c) has
\* l < sheet height and c < sheet width, and the targets of two different
\* sprites are never the same sheet pixel (the targets of all the pixels of
\* all the sprites are that many different sheet pixels).
C11_NoPixelDropped ==
    (/\ cpSt.pc = "done"
     /\ Len(cpSt.sprites) = cpSt.args.sprite_columns * cpSt.args.sprite_lines) =>
        LET a       == cpSt.args
            cells   == 0..(Len(cpSt.sprites) - 1)
            sls     == 0..(a.sprite_height - 1)
            scs     == 0..(a.sprite_width - 1)
            targets == {Target(a, p[1], p[2], p[3]) : p \in cells \X sls \X scs}
        IN  /\ cpSt.dropped = 0
            /\ \A t \in targets : t[1] < ImageHeight(a) /\ t[2] < ImageWidth(a)
            /\ Cardinality(targets) =
                  Len(cpSt.sprites) * a.sprite_height * a.sprite_width

C11_Witness ==
    /\ cpSt.pc = "done"
    /\ cpSt.args = Layout(2, 3, 2, 2, 1)
    /\ Len(cpSt.sprites) = 4
    /\ cpSt.dropped = 0
    /\ Target(cpSt.args, 3, 2, 1) = <<7, 5>>

----------------------------------------------------------------------------
(* Properties of the generator, checked under SpecGen *)

\* C2: every row of every sprite generate_sprite returns is mirror
\* symmetric, whatever the palette and the draws.
C2_MirrorSymmetry ==
    \A k \in 1..Len(sprites) :
        \A l \in 0..(sprites[k].height - 1), c \in 0..(sprites[k].width - 1) :
            sprites[k].data[sprites[k].width * l + c + 1] =
                sprites[k].data[sprites[k].width * l + (sprites[k].width - 1 - c) + 1]

C2_Witness ==
    /\ pc = "generated"
    /\ \E k \in 1..Len(sprites) :
          /\ sprites[k].width = 3
          /\ sprites[k].data[1] # Background
          /\ sprites[k].data[3] = sprites[k].data[1]
          /\ sprites[k].data[2] # sprites[k].data[1]

Ceil2(w) == CHOOSE n \in 0..w : 2 * n >= w /\ 2 * (n - 1) < w

\* the draw that has to follow draw e, when e leaves its column
DrawAfterColumn(e) ==
    IF e.column + 1 < Ceil2(args.sprite_width)
    THEN [kind |-> "weight", cell |-> e.cell, line |-> e.line,
          column |-> e.column + 1]
    ELSE IF e.line + 1 < args.sprite_height
    THEN [kind |-> "weight", cell |-> e.cell, line |-> e.line + 1, column |-> 0]
    ELSE [kind |-> "palette", cell |-> e.cell + 1, line |-> 0, column |-> 0]

DrawAfter(e) ==
    IF e.kind = "palette"
    THEN [kind |-> "weight", cell |-> e.cell, line |-> 0, column |-> 0]
    ELSE IF e.kind = "weight" /\ e.value = 0
    THEN [kind |-> "color", cell |-> e.cell, line |-> e.line, column |-> e.column]
    ELSE DrawAfterColumn(e)

Site(e) == [kind |-> e.kind, cell |-> e.cell, line |-> e.line, column |-> e.column]

DrawsOf(kind, cell) ==
    Cardinality({i \in 1..Len(drawLog) :
                    drawLog[i].kind = kind /\ drawLog[i].cell = cell})

\* C10: the draws are made in one fixed order: cell by cell from cell 0, in
\* a cell first the palette, then line by line and column by column the
\* weighted draw of the column followed at once, when it says paint, by the
\* color; a sprite makes height * ceil(width / 2) weighted draws and one
\* color draw for each column it paints.
C10_DrawOrder ==
    /\ drawLog # <<>> =>
          Site(drawLog[1]) = [kind |-> "palette", cell |-> 0, line |-> 0, column |-> 0]
    /\ \A i \in 1..(Len(drawLog) - 1) : Site(drawLog[i + 1]) = DrawAfter(drawLog[i])
    /\ pc = "generated" =>
          /\ Len(sprites) = Cells(args)
          /\ DrawAfter(drawLog[Len(drawLog)]).cell = Cells(args)
          /\ \A cell \in 0..(Cells(args) - 1) :
                /\ DrawsOf("palette", cell) = 1
                /\ DrawsOf("weight", cell) =
                      args.sprite_height * Ceil2(args.sprite_width)
                /\ DrawsOf("color", cell) =
                      Cardinality(
                          {lc \in (0..(args.sprite_height - 1)) \X
                                  (0..(Ceil2(args.sprite_width) - 1)) :
                              sprites[cell + 1].data[
                                  args.sprite_width * lc[1] + lc[2] + 1] # Background})

\* two sprites of odd width, the second with a painted and a skipped column
C10_Witness ==
    /\ pc = "generated"
    /\ Len(sprites) = 2
    /\ args.sprite_width = 3
    /\ DrawsOf("color", 1) = 1
    /\ DrawsOf("weight", 1) = 2

\* the share of the paint outcome (values[0] = true, line 253) in a logged
\* weighted draw is PaintWeight(e) / TotalWeight(e)
PaintWeight(e) == e.weights[1]
TotalWeight(e) == e.weights[1] + e.weights[2]

WeightDraws == {i \in 1..Len(drawLog) : drawLog[i].kind = "weight"}

\* C12 as stated: of two weighted draws of a row, the one at the column
\* nearer the edge never has the smaller paint weight.
C12_DenserTowardEdges ==
    \A i \in WeightDraws, j \in WeightDraws :
        drawLog[i].column < drawLog[j].column =>
            PaintWeight(drawLog[i]) * TotalWeight(drawLog[j]) >=
                PaintWeight(drawLog[j]) * TotalWeight(drawLog[i])

\* C12 amended: the paint weight 0.5 - 0.5 f of column c is (2c + 1) of the
\* 2 width parts the two weights share, so of two weighted draws the one at
\* the column nearer the edge never has the larger paint weight: painting
\* is denser toward the center and sparser toward the edges.
C12_DenserTowardCenter ==
    \A i \in WeightDraws, j \in WeightDraws :
        drawLog[i].column < drawLog[j].column =>
            PaintWeight(drawLog[i]) * TotalWeight(drawLog[j]) <=
                PaintWeight(drawLog[j]) * TotalWeight(drawLog[i])

\* the weighted draws of the edge, the middle and the center column of a
\* row WideWidth wide
C12_Witness ==
    /\ args.sprite_width = WideWidth
    /\ \E i \in WeightDraws, j \in WeightDraws, k \in WeightDraws :
          /\ drawLog[i].column = 0 /\ drawLog[j].column = 1
          /\ drawLog[k].column = 2
          /\ PaintWeight(drawLog[i]) < PaintWeight(drawLog[j])
          /\ PaintWeight(drawLog[j]) < PaintWeight(drawLog[k])

----------------------------------------------------------------------------
(* Properties of main, checked under Spec *)

SameLayout(a, b) == [a EXCEPT !.seed = <<>>] = [b EXCEPT !.seed = <<>>]

\* C1: two runs from the same seed, the same palette set and the same
\* layout end with the same sheet, pixel for pixel.
C1_Determinism ==
    (/\ pc = "done" /\ run = 2
     /\ prev.seed = seed /\ prev.palettes = palettes /\ SameLayout(prev.args, args))
        => sheet = prev.sheet

\* a second run from the first run's seed whose sheet holds two colors
C1_Witness ==
    /\ pc = "done" /\ run = 2
    /\ prev.seed = seed /\ prev.palettes = palettes /\ SameLayout(prev.args, args)
    /\ \E i, j \in 1..Len(sheet) :
          /\ sheet[i] # Background /\ sheet[j] # Background /\ sheet[i] # sheet[j]

\* C6: a sprite is denoised, by the pass r = 2, minCount = 8 and then the
\* pass r = 2, minCount = 4, only when its width and its height both exceed
\* 9; otherwise it reaches the compositor as generate_sprite made it.
C6_SizeGatedDenoise ==
    \A k \in 1..Len(denoised) :
        denoised[k] =
            IF sprites[k].width > 9 /\ sprites[k].height > 9
            THEN remove_lonely_pixels(
                     remove_lonely_pixels(sprites[k], PassMargin, FirstMinCount,
                                          Background),
                     PassMargin, SecondMinCount, Background)
            ELSE sprites[k]

=============================================================================
